---- MODULE Spec2Model ----
(***************************************************************************)
(* p-mutex: an async mutex for a single-threaded, cooperatively scheduled  *)
(* runtime (src/index.js).                                                 *)
(*                                                                         *)
(* The mutex state is the pair (isLocked, queue).  Every action below is   *)
(* one run-to-completion block of JavaScript: the code between two         *)
(* suspension points (an `await`) of one caller.  Which ready continuation *)
(* runs next is left to the scheduler, so the model allows every order in  *)
(* which ready continuations can be run.                                   *)
(***************************************************************************)
EXTENDS Naturals, Sequences, FiniteSets

\* Number of concurrently scheduled callers.
NumTasks == 3

\* Cap on the number of unlock() calls in one behaviour (keeps the counters finite).
MaxUnlocks == 4

Tasks == 1..NumTasks

\* What a task function handed to withLock can produce.
Values == {"ok", "other"}
Errors == {"E"}

None == [type |-> "none", value |-> "none"]
Return(v) == [type |-> "return", value |-> v]
Throw(e) == [type |-> "throw", value |-> e]

\* A task that returns a value, or a promise that settles later.
AsyncOutcomes == {Return(v) : v \in Values} \cup {Throw(e) : e \in Errors}
\* A task that throws before its first suspension point.
SyncThrows == {Throw(e) : e \in Errors}
\* How a call of task() ends synchronously: it threw, or it is still to settle.
Started == [type |-> "pending", value |-> "none"]
StartOutcomes == SyncThrows \cup {Started}

VARIABLES
    isLocked,     \* #isLocked
    queue,        \* #queue: the resolve callbacks of the pending lock() promises
    pc,           \* where each caller is
    outer,        \* the critical section a caller is in while it makes a nested call
    result,       \* the settled outcome of a caller's withLock promise
    taskOutcome,  \* history: what the task of that withLock call produced
    unlocks,      \* history: unlock() calls made by a caller's current withLock call
    wakeups,      \* history: times the resolve callback of a caller's request was invoked
    arrivals,     \* history: the ungranted queued requests, in the order they were made
    unlockCalls,  \* history: unlock() calls made so far
    resumeCount,  \* history: resolve callbacks invoked so far
    stolen,       \* history: unlock() was called on a held mutex by a caller not holding it
    overReleased, \* history: unlock() was called on a free mutex
    ops,          \* history: the method calls made so far, while they follow a tracked script
    calls,        \* history: the withLock calls whose task has not been called, in call order
    counter,      \* the shared counter of the increment tests
    rmw           \* each caller's read-modify-write of the counter: its phase and the value it read

vars == <<isLocked, queue, pc, outer, result, taskOutcome, unlocks, wakeups,
          arrivals, unlockCalls, resumeCount, stolen, overReleased, ops, calls,
          counter, rmw>>

----------------------------------------------------------------------------
(* The queue (yocto-queue, as used by src/index.js) *)

\* Variant: a new entry is put at the front (a stack, not a queue).
EnqueueFront(q, resolve) == <<resolve>> \o q

Enqueue(q, resolve) == Append(q, resolve)

Size(q) == Len(q)

\* Variant: the newest entry is taken, not the oldest.
DequeueLast(q) == [value |-> q[Len(q)], rest |-> SubSeq(q, 1, Len(q) - 1)]

Dequeue(q) == [value |-> Head(q), rest |-> Tail(q)]

----------------------------------------------------------------------------
(* The methods of Mutex, as functions of the mutex state m *)

Mutex == [isLocked |-> isLocked, queue |-> queue]

\* Variant: tryLock() looks at the queue, not at #isLocked.
TryLockChecksQueue(m) ==
    IF Len(m.queue) = 0
    THEN [m |-> [m EXCEPT !.isLocked = TRUE], ret |-> TRUE]
    ELSE [m |-> m, ret |-> FALSE]

\* Variant: tryLock() reports success on a free mutex and leaves #isLocked unset.
TryLockNoSet(m) ==
    IF ~m.isLocked
    THEN [m |-> m, ret |-> TRUE]
    ELSE [m |-> m, ret |-> FALSE]

TryLock(m) ==
    IF ~m.isLocked
    THEN [m |-> [m EXCEPT !.isLocked = TRUE], ret |-> TRUE]
    ELSE [m |-> m, ret |-> FALSE]

\* Variant: lock() grants the lock without looking at #isLocked.
LockNeverQueues(m, t) ==
    [m |-> [m EXCEPT !.isLocked = TRUE], pending |-> FALSE]

\* Variant: lock() looks at the queue, not at #isLocked: it grants the lock
\* whenever nobody is queued.
LockChecksQueue(m, t) ==
    IF Len(m.queue) = 0
    THEN [m |-> [m EXCEPT !.isLocked = TRUE], pending |-> FALSE]
    ELSE [m |-> [m EXCEPT !.queue = Enqueue(m.queue, t)], pending |-> TRUE]

\* Variant: lock() queues its caller whether or not the mutex is locked.
LockAlwaysQueues(m, t) ==
    [m |-> [m EXCEPT !.queue = Enqueue(m.queue, t)], pending |-> TRUE]

\* lock() called by t: pending is whether the returned promise waits for a resolve.
Lock(m, t) ==
    IF ~m.isLocked
    THEN [m |-> [m EXCEPT !.isLocked = TRUE], pending |-> FALSE]
    ELSE [m |-> [m EXCEPT !.queue = Enqueue(m.queue, t)], pending |-> TRUE]

\* Variant: unlock() clears #isLocked also when it hands the lock to a waiter.
UnlockFreesOnHandoff(m) ==
    IF Len(m.queue) > 0
    THEN [m |-> [isLocked |-> FALSE, queue |-> Tail(m.queue)],
          resolved |-> <<Head(m.queue)>>, completion |-> Return("undefined")]
    ELSE [m |-> [m EXCEPT !.isLocked = FALSE], resolved |-> <<>>,
          completion |-> Return("undefined")]

\* Variant: unlock() removes the head entry but never calls it.
UnlockDropsWaiter(m) ==
    IF Len(m.queue) > 0
    THEN [m |-> [m EXCEPT !.queue = Tail(m.queue)], resolved |-> <<>>,
          completion |-> Return("undefined")]
    ELSE [m |-> [m EXCEPT !.isLocked = FALSE], resolved |-> <<>>,
          completion |-> Return("undefined")]

\* Variant: unlock() calls the head entry and leaves it in the queue.
UnlockPeeks(m) ==
    IF Len(m.queue) > 0
    THEN [m |-> m, resolved |-> <<Head(m.queue)>>,
          completion |-> Return("undefined")]
    ELSE [m |-> [m EXCEPT !.isLocked = FALSE], resolved |-> <<>>,
          completion |-> Return("undefined")]

\* Variant: unlock() rejects a mutex that is not locked.
UnlockThrowsWhenFree(m) ==
    IF Len(m.queue) > 0
    THEN [m |-> [m EXCEPT !.queue = Tail(m.queue)], resolved |-> <<Head(m.queue)>>,
          completion |-> Return("undefined")]
    ELSE IF m.isLocked
    THEN [m |-> [m EXCEPT !.isLocked = FALSE], resolved |-> <<>>,
          completion |-> Return("undefined")]
    ELSE [m |-> m, resolved |-> <<>>, completion |-> Throw("NotLocked")]

\* Variant: unlock() calls every queued resolve callback, not only the head.
UnlockResumesAll(m) ==
    IF Len(m.queue) > 0
    THEN [m |-> [m EXCEPT !.queue = <<>>], resolved |-> m.queue,
          completion |-> Return("undefined")]
    ELSE [m |-> [m EXCEPT !.isLocked = FALSE], resolved |-> <<>>,
          completion |-> Return("undefined")]

\* Variant: unlock() calls the head entry and removes the entry behind it as well.
UnlockTakesTwo(m) ==
    IF Len(m.queue) > 0
    THEN [m |-> [m EXCEPT !.queue = IF Len(m.queue) > 1 THEN Tail(Tail(m.queue)) ELSE <<>>],
          resolved |-> <<Head(m.queue)>>, completion |-> Return("undefined")]
    ELSE [m |-> [m EXCEPT !.isLocked = FALSE], resolved |-> <<>>,
          completion |-> Return("undefined")]

\* Variant: unlock() never clears #isLocked.
UnlockKeepsFlag(m) ==
    IF Len(m.queue) > 0
    THEN [m |-> [m EXCEPT !.queue = Tail(m.queue)], resolved |-> <<Head(m.queue)>>,
          completion |-> Return("undefined")]
    ELSE [m |-> m, resolved |-> <<>>, completion |-> Return("undefined")]

\* unlock(): resolved lists the callers whose resolve callback it invoked.
Unlock(m) ==
    IF Size(m.queue) > 0
    THEN LET d == Dequeue(m.queue)
         IN [m |-> [m EXCEPT !.queue = d.rest], resolved |-> <<d.value>>,
             completion |-> Return("undefined")]
    ELSE [m |-> [m EXCEPT !.isLocked = FALSE], resolved |-> <<>>,
          completion |-> Return("undefined")]

\* Variant: reading isLocked resets the flag.
IsLockedClears(m) == [m |-> [m EXCEPT !.isLocked = FALSE], ret |-> m.isLocked]

\* get isLocked(): the flag is returned and the mutex is left as it was.
IsLocked(m) == [m |-> m, ret |-> m.isLocked]

\* Variant: the finally block ends with a return of its own, which replaces the
\* completion of the try block.
FinallyOverrides(tryC, finallyC) == finallyC

\* try { ... } finally { ... }: the try block's completion stands unless the
\* finally block itself throws.
FinallyCompletion(tryC, finallyC) ==
    IF finallyC.type = "throw" THEN finallyC ELSE tryC

----------------------------------------------------------------------------
(* withLock(task), block by block *)

\* Variant: unlock() only after a successful task (no finally block).
FinallyOnSuccessOnly(m, c) ==
    IF c.type = "throw"
    THEN [m |-> m, resolved |-> <<>>, pc |-> "settled", result |-> c,
          unlocked |-> 0, queued |-> FALSE]
    ELSE [m |-> Unlock(m).m, resolved |-> Unlock(m).resolved, pc |-> "settled",
          result |-> c, unlocked |-> 1, queued |-> FALSE]

\* The finally block, entered with the try block's completion c: unlock(), and
\* the promise of withLock settles.
Finally(m, c) ==
    LET u == Unlock(m)
    IN [m |-> u.m, resolved |-> u.resolved, pc |-> "settled",
        result |-> FinallyCompletion(c, u.completion), unlocked |-> 1,
        queued |-> FALSE]

\* Variant: `return task()` without await: the finally block runs as soon as
\* the task has been called, while the task is still running.
CallTaskNoAwait(m, o) ==
    IF o.type = "throw"
    THEN [m |-> Unlock(m).m, resolved |-> Unlock(m).resolved, pc |-> "settled",
          result |-> o, unlocked |-> 1, queued |-> FALSE]
    ELSE [m |-> Unlock(m).m, resolved |-> Unlock(m).resolved, pc |-> "wlTask",
          result |-> None, unlocked |-> 1, queued |-> FALSE]

\* `return await task()`: task is called; o is how that call ends synchronously.
\* A synchronous throw enters the finally block at once; otherwise the caller is
\* suspended until the task's result settles.
CallTask(m, o) ==
    IF o.type = "throw"
    THEN Finally(m, o)
    ELSE [m |-> m, resolved |-> <<>>, pc |-> "wlTask", result |-> None,
          unlocked |-> 0, queued |-> FALSE]

\* Variant: withLock() is reentrant: when tryLock() fails it calls the task anyway.
WithLockReentrant(m, t, o) ==
    LET r == TryLock(m)
    IN CallTask(r.m, o)

\* The call of withLock by t up to its first suspension point.
WithLock(m, t, o) ==
    LET r == TryLock(m)
    IN IF ~r.ret
       THEN LET l == Lock(r.m, t)
            IN [m |-> l.m, resolved |-> <<>>,
                pc |-> IF l.pending THEN "wlWaiting" ELSE "wlResumed",
                result |-> None, unlocked |-> 0, queued |-> l.pending]
       ELSE CallTask(r.m, o)

----------------------------------------------------------------------------
(* Callers *)

InSeq(x, s) == \E i \in 1..Len(s) : s[i] = x

Count(x, s) == Cardinality({i \in 1..Len(s) : s[i] = x})

Without(s, res) ==
    LET Keep(x) == ~InSeq(x, res) IN SelectSeq(s, Keep)

\* A caller whose resolve callback is invoked becomes ready to continue.
ResumedPc(p) ==
    IF p = "waiting" THEN "resumed"
    ELSE IF p = "wlWaiting" THEN "wlResumed"
    ELSE p

\* Calls in progress (nested ones counted apart): each makes at most one unlock().
Outstanding ==
    Cardinality({t \in Tasks : pc[t] \notin {"idle", "refused", "crashed"}})
    + Cardinality({t \in Tasks : outer[t] # "none"})

Budget == unlockCalls + Outstanding < MaxUnlocks

\* t is between calls.
Callable(t) == pc[t] \in {"idle", "refused"} /\ Budget

\* t is inside its critical section and may call the mutex again from there.
Nestable(t) == pc[t] \in {"cs", "wlTask"} /\ outer[t] = "none" /\ Budget

OuterOf(t) == IF pc[t] \in {"cs", "wlTask"} THEN pc[t] ELSE "none"

ReturnPc(t) == IF outer[t] # "none" THEN outer[t] ELSE "idle"

\* The scenario tryLock(), tryLock(), unlock(), tryLock() on a new mutex.
TryLockScenario == <<"tryLock", "tryLock", "unlock", "tryLock">>

\* A method call: which method, by which caller, and what it returned (for
\* lock(), whether the returned promise waits for a resolve).
Event(op, t, ret) == [op |-> op, by |-> t, ret |-> ret]

FollowsScenario(log) ==
    /\ Len(log) <= Len(TryLockScenario)
    /\ \A i \in 1..Len(log) : log[i].op = TryLockScenario[i]

\* lock() and unlock() in turn, all by one caller.
SoloPairs(log) ==
    /\ Len(log) <= 2 * MaxUnlocks
    /\ \A i \in 1..Len(log) :
          /\ log[i].by = log[1].by
          /\ log[i].op = IF i % 2 = 1 THEN "lock" ELSE "unlock"

Tracked(log) == FollowsScenario(log) \/ SoloPairs(log)

Untracked == [on |-> FALSE, log |-> <<>>]

\* The method call e is made: it is recorded while the calls follow a tracked script.
Log(e) ==
    ops' = IF ops.on /\ Tracked(Append(ops.log, e))
           THEN [ops EXCEPT !.log = Append(ops.log, e)]
           ELSE Untracked

\* A caller that takes no part in the increment tests, and one that is to
\* increment the counter once.
NoIncrement == [phase |-> "off", current |-> 0]
ToIncrement == [phase |-> "todo", current |-> 0]
Incremented == [phase |-> "done", current |-> 0]

\* The body of the critical section of the increment tests, as t moves from
\* `from` to `to`: `const current = counter` on entering it, and, where the
\* section was entered by lock(), `counter = current + 1` in the block that
\* ends with unlock().
Section(t, from, to) ==
    IF rmw[t].phase = "todo" /\ to \in {"cs", "wlTask"}
    THEN /\ rmw' = [rmw EXCEPT ![t] = [phase |-> "read", current |-> counter]]
         /\ UNCHANGED counter
    ELSE IF rmw[t].phase = "read" /\ from = "cs" /\ to # "cs"
    THEN /\ counter' = rmw[t].current + 1
         /\ rmw' = [rmw EXCEPT ![t] = Incremented]
    ELSE IF rmw[t].phase = "written" /\ from = "wlTask" /\ to = "settled"
    THEN /\ rmw' = [rmw EXCEPT ![t] = Incremented]
         /\ UNCHANGED counter
    ELSE UNCHANGED <<counter, rmw>>

\* The effect of one block run by t on the mutex and on the other callers:
\* m2 is the mutex state it leaves, res the callers it resumed, newpc where t
\* is afterwards, w the resolve count of t's request afterwards, enq whether t
\* was queued, n the number of unlock() calls it made, over whether such a call
\* found the mutex free.
Step(t, m2, res, newpc, w, enq, n, over) ==
    /\ Section(t, pc[t], newpc)
    /\ isLocked' = m2.isLocked
    /\ queue' = m2.queue
    /\ pc' = [x \in Tasks |->
                IF x = t THEN newpc
                ELSE IF InSeq(x, res) THEN ResumedPc(pc[x]) ELSE pc[x]]
    /\ wakeups' = [x \in Tasks |->
                IF x = t THEN w + Count(x, res) ELSE wakeups[x] + Count(x, res)]
    /\ arrivals' = Without(IF enq THEN Append(arrivals, t) ELSE arrivals, res)
    /\ unlockCalls' = unlockCalls + n
    /\ resumeCount' = resumeCount + Len(res)
    /\ overReleased' = (overReleased \/ over)

\* new Mutex(), with callers that are each to do r with the counter.
Start(r) ==
    /\ isLocked = FALSE
    /\ queue = <<>>
    /\ pc = [t \in Tasks |-> "idle"]
    /\ outer = [t \in Tasks |-> "none"]
    /\ result = [t \in Tasks |-> None]
    /\ taskOutcome = [t \in Tasks |-> None]
    /\ unlocks = [t \in Tasks |-> 0]
    /\ wakeups = [t \in Tasks |-> 0]
    /\ arrivals = <<>>
    /\ unlockCalls = 0
    /\ resumeCount = 0
    /\ stolen = FALSE
    /\ overReleased = FALSE
    /\ ops = [on |-> TRUE, log |-> <<>>]
    /\ calls = <<>>
    /\ counter = 0
    /\ rmw = [t \in Tasks |-> r]

Init == Start(NoIncrement)

\* if (mutex.tryLock()) { ...critical section... }
DoTryLock(t) ==
    LET r == TryLock(Mutex)
    IN /\ Step(t, r.m, <<>>, IF r.ret THEN "cs" ELSE "refused", 0, FALSE, 0, FALSE)
       /\ Log(Event("tryLock", t, r.ret))
       /\ UNCHANGED <<outer, result, taskOutcome, unlocks, stolen, calls>>

TryLockCall(t) == Callable(t) /\ DoTryLock(t)

\* await mutex.lock(): the call, up to the await.
DoLock(t) ==
    LET l == Lock(Mutex, t)
    IN /\ Step(t, l.m, <<>>, IF l.pending THEN "waiting" ELSE "granted", 0,
               l.pending, 0, FALSE)
       /\ Log(Event("lock", t, l.pending))
       /\ outer' = [outer EXCEPT ![t] = OuterOf(t)]
       /\ UNCHANGED <<result, taskOutcome, unlocks, stolen, calls>>

LockCall(t) == Callable(t) /\ DoLock(t)

\* The holder calls lock() again from inside its critical section.
ReLockCall(t) == Nestable(t) /\ DoLock(t)

\* The continuation of `await mutex.lock()`: the caller is in its critical section.
Continue(t) ==
    /\ pc[t] \in {"granted", "resumed"}
    /\ Step(t, Mutex, <<>>, "cs", wakeups[t], FALSE, 0, FALSE)
    /\ UNCHANGED <<outer, result, taskOutcome, unlocks, stolen, ops, calls>>

\* The end of a critical section entered by lock() or tryLock(): mutex.unlock().
ExitCS(t) ==
    /\ pc[t] = "cs"
    /\ LET u == Unlock(Mutex)
       IN Step(t, u.m, u.resolved,
               IF u.completion.type = "throw" THEN "crashed" ELSE ReturnPc(t),
               0, FALSE, 1, ~isLocked)
    /\ Log(Event("unlock", t, FALSE))
    /\ outer' = [outer EXCEPT ![t] = "none"]
    /\ UNCHANGED <<result, taskOutcome, unlocks, stolen, calls>>

\* The holder releases while a lock() it issued from inside its critical section
\* (and did not wait for) is still in progress: that request goes on alone.
OuterExit(t) ==
    /\ outer[t] = "cs"
    /\ LET u == Unlock(Mutex)
       IN Step(t, u.m, u.resolved,
               IF u.completion.type = "throw" THEN "crashed"
               ELSE IF InSeq(t, u.resolved) THEN ResumedPc(pc[t]) ELSE pc[t],
               wakeups[t], FALSE, 1, ~isLocked)
    /\ Log(Event("unlock", t, FALSE))
    /\ outer' = [outer EXCEPT ![t] = "none"]
    /\ UNCHANGED <<result, taskOutcome, unlocks, stolen, calls>>

\* A block of withLock run by t that ended as s, the task having produced o;
\* held is whether the mutex was locked when the block came to its unlock().
\* The call is pending until its task has been called.
WithLockStep(t, s, o, w, held) ==
    /\ Step(t, s.m, s.resolved, s.pc, w, s.queued, s.unlocked,
            s.unlocked > 0 /\ ~held)
    /\ result' = [result EXCEPT ![t] = s.result]
    /\ taskOutcome' = [taskOutcome EXCEPT ![t] = IF o.type = "pending" THEN None ELSE o]
    /\ unlocks' = [unlocks EXCEPT ![t] = unlocks[t] + s.unlocked]
    /\ calls' = IF s.pc \in {"wlWaiting", "wlResumed"}
                THEN (IF InSeq(t, calls) THEN calls ELSE Append(calls, t))
                ELSE Without(calls, <<t>>)
    /\ UNCHANGED stolen

\* mutex.withLock(task): the call, up to its first suspension point.
DoWithLock(t, o) ==
    LET s == WithLock(Mutex, t, o)
    IN /\ WithLockStep(t, s,
                       IF s.pc = "wlWaiting" \/ s.pc = "wlResumed" THEN Started ELSE o,
                       0, TryLock(Mutex).m.isLocked)
       /\ Log(Event("withLock", t, s.queued))
       /\ outer' = [outer EXCEPT ![t] = OuterOf(t)]

WithLockCall(t, o) == Callable(t) /\ DoWithLock(t, o)

\* The task of a withLock calls withLock (or a lock holder does) on the same mutex.
ReWithLockCall(t, o) == Nestable(t) /\ DoWithLock(t, o)

\* The continuation of `await this.lock()` inside withLock: the task is called.
WithLockContinue(t, o) ==
    /\ pc[t] = "wlResumed"
    /\ LET s == CallTask(Mutex, o)
       IN /\ WithLockStep(t, s, o, wakeups[t], isLocked)
          /\ IF s.unlocked > 0 THEN Log(Event("unlock", t, FALSE)) ELSE UNCHANGED ops
    /\ UNCHANGED outer

\* The last block of the task of the increment test that uses withLock:
\* `counter = current + 1`, after which the promise of the task resolves.
TaskWrite(t) ==
    /\ pc[t] = "wlTask"
    /\ rmw[t].phase = "read"
    /\ counter' = rmw[t].current + 1
    /\ rmw' = [rmw EXCEPT ![t] = [phase |-> "written", current |-> 0]]
    /\ UNCHANGED <<isLocked, queue, pc, outer, result, taskOutcome, unlocks,
                   wakeups, arrivals, unlockCalls, resumeCount, stolen,
                   overReleased, ops, calls>>

\* The continuation of `await task()`: the task settled as c; the finally block runs.
TaskFinish(t, c) ==
    /\ pc[t] = "wlTask"
    /\ rmw[t].phase # "read"
    /\ WithLockStep(t, Finally(Mutex, c), c, wakeups[t], isLocked)
    /\ Log(Event("unlock", t, FALSE))
    /\ UNCHANGED outer

\* The caller of withLock observes the settled promise.
Observe(t) ==
    /\ pc[t] = "settled"
    /\ Step(t, Mutex, <<>>, ReturnPc(t), 0, FALSE, 0, FALSE)
    /\ outer' = [outer EXCEPT ![t] = "none"]
    /\ result' = [result EXCEPT ![t] = None]
    /\ taskOutcome' = [taskOutcome EXCEPT ![t] = None]
    /\ unlocks' = [unlocks EXCEPT ![t] = 0]
    /\ UNCHANGED <<stolen, ops, calls>>

\* Variant: the mutex remembers its owner, and unlock() by a caller that holds
\* nothing is ignored.
StrayUnlockIgnored(t) ==
    /\ Callable(t)
    /\ Step(t, Mutex, <<>>, "idle", 0, FALSE, 1, ~isLocked)
    /\ Log(Event("unlock", t, FALSE))
    /\ stolen' = (stolen \/ isLocked)
    /\ UNCHANGED <<outer, result, taskOutcome, unlocks, calls>>

\* mutex.unlock() by a caller that holds nothing.
StrayUnlock(t) ==
    /\ Callable(t)
    /\ LET u == Unlock(Mutex)
       IN Step(t, u.m, u.resolved,
               IF u.completion.type = "throw" THEN "crashed" ELSE "idle",
               0, FALSE, 1, ~isLocked)
    /\ Log(Event("unlock", t, FALSE))
    /\ stolen' = (stolen \/ isLocked)
    /\ UNCHANGED <<outer, result, taskOutcome, unlocks, calls>>

\* A caller reads mutex.isLocked.
ReadIsLocked(t) ==
    /\ Step(t, IsLocked(Mutex).m, <<>>, pc[t], wakeups[t], FALSE, 0, FALSE)
    /\ UNCHANGED <<outer, result, taskOutcome, unlocks, stolen, ops, calls>>

\* Paired use: every unlock() is the one release of a caller that was granted the lock.
PairedNext ==
    \/ \E t \in Tasks : TryLockCall(t)
    \/ \E t \in Tasks : LockCall(t)
    \/ \E t \in Tasks : Continue(t)
    \/ \E t \in Tasks : ExitCS(t)
    \/ \E t \in Tasks : \E o \in StartOutcomes : WithLockCall(t, o)
    \/ \E t \in Tasks : \E o \in StartOutcomes : WithLockContinue(t, o)
    \/ \E t \in Tasks : \E c \in AsyncOutcomes : TaskFinish(t, c)
    \/ \E t \in Tasks : Observe(t)

Next ==
    \/ PairedNext
    \/ \E t \in Tasks : ReLockCall(t)
    \/ \E t \in Tasks : OuterExit(t)
    \/ \E t \in Tasks : \E o \in StartOutcomes : ReWithLockCall(t, o)
    \/ \E t \in Tasks : StrayUnlock(t)
    \/ \E t \in Tasks : ReadIsLocked(t)

Spec == Init /\ [][Next]_vars

\* The runtime runs every continuation whose promise has settled, and (the
\* premise of the liveness property) every critical section and every task
\* handed to withLock comes to its end.
Advance(t) ==
    \/ Continue(t)
    \/ ExitCS(t)
    \/ \E o \in StartOutcomes : WithLockContinue(t, o)
    \/ \E c \in AsyncOutcomes : TaskFinish(t, c)
    \/ Observe(t)

Fairness == \A t \in Tasks : WF_vars(Advance(t))

\* Paired use under fair scheduling.
FairSpec == Init /\ [][PairedNext]_vars /\ Fairness

\* The increment tests: every caller increments the counter once, inside
\* `await mutex.lock(); ...; mutex.unlock()` or inside the task of withLock.
IncrementByLock(t) == rmw[t].phase = "todo" /\ LockCall(t)

IncrementByWithLock(t) == rmw[t].phase = "todo" /\ WithLockCall(t, Started)

Increment(t) ==
    \/ IncrementByLock(t)
    \/ IncrementByWithLock(t)
    \/ Continue(t)
    \/ ExitCS(t)
    \/ WithLockContinue(t, Started)
    \/ TaskWrite(t)
    \/ TaskFinish(t, Return("ok"))
    \/ Observe(t)

CounterInit == Start(ToIncrement)

CounterNext ==
    \/ \E t \in Tasks : IncrementByLock(t)
    \/ \E t \in Tasks : IncrementByWithLock(t)
    \/ \E t \in Tasks : Continue(t)
    \/ \E t \in Tasks : ExitCS(t)
    \/ \E t \in Tasks : WithLockContinue(t, Started)
    \/ \E t \in Tasks : TaskWrite(t)
    \/ \E t \in Tasks : TaskFinish(t, Return("ok"))
    \/ \E t \in Tasks : Observe(t)

\* The tests start every increment, the timers fire, and the runtime runs
\* every continuation whose promise has settled.
CounterSpec ==
    CounterInit /\ [][CounterNext]_vars /\ \A t \in Tasks : WF_vars(Increment(t))

TypeOK ==
    /\ isLocked \in BOOLEAN
    /\ \A i \in 1..Len(queue) : queue[i] \in Tasks
    /\ pc \in [Tasks -> {"idle", "refused", "granted", "waiting", "resumed", "cs",
                         "wlWaiting", "wlResumed", "wlTask", "settled", "crashed"}]
    /\ outer \in [Tasks -> {"none", "cs", "wlTask"}]
    /\ unlockCalls \in 0..MaxUnlocks
    /\ resumeCount \in 0..MaxUnlocks

----------------------------------------------------------------------------
(* Vocabulary of the properties *)

Waiting(t) == pc[t] \in {"waiting", "wlWaiting"}

\* The resolve callback of t's request was invoked; t has not continued yet.
Resumed(t) == pc[t] \in {"resumed", "wlResumed"}

\* t is running between its own acquisition and its own release.
InRegion(t) == pc[t] \in {"cs", "wlTask"} \/ outer[t] # "none"

Idle(t) == pc[t] \in {"idle", "refused"}

\* Every unlock() so far was the release of the caller that held the lock.
PairedUse == ~stolen

----------------------------------------------------------------------------
(* C1: mutual exclusion.  As long as every unlock() is the one release of a
   caller that was granted the lock, no two callers are at the same time
   between their own acquisition and their own release. *)
C1_MutualExclusion ==
    PairedUse => \A t, u \in Tasks : (InRegion(t) /\ InRegion(u)) => t = u

\* A caller that had to queue is in its critical section while another waits.
C1_Witness ==
    /\ PairedUse
    /\ \E t, u \in Tasks :
          /\ pc[t] \in {"cs", "wlTask"} /\ wakeups[t] = 1
          /\ Waiting(u)

(* C2: FIFO fairness.  The queue holds the ungranted requests in the order
   in which they were made, and whenever a waiter is resumed it is the one
   whose lock() call was made first among those still waiting. *)
C2_Fifo ==
    /\ [](queue = arrivals)
    /\ [][\A t \in Tasks :
            (Waiting(t) /\ ~Waiting(t)')
                => (arrivals # <<>> /\ t = Head(arrivals) /\ Resumed(t)')]_vars

\* A waiter has been resumed while two other requests are queued.
C2_Witness ==
    /\ \E t \in Tasks : Resumed(t) /\ wakeups[t] = 1
    /\ Len(queue) = 2
    /\ queue[1] # queue[2]

(* C3: withLock calls unlock() exactly once per call: not while the call
   waits for the lock or while its task runs, and it has done so by the time
   the promise of withLock is settled (before the caller can observe it). *)
C3_UnlockOncePerWithLock ==
    \A t \in Tasks :
        /\ pc[t] \in {"wlWaiting", "wlResumed", "wlTask"} => unlocks[t] = 0
        /\ pc[t] = "settled" => unlocks[t] = 1
        /\ unlocks[t] <= 1

\* A withLock call that had to queue has settled with its task's failure.
C3_Witness ==
    \E t \in Tasks :
        /\ pc[t] = "settled" /\ unlocks[t] = 1 /\ wakeups[t] = 1
        /\ result[t].type = "throw"

\* No caller but t holds, waits for, or has been handed the lock.
Alone(t) == \A u \in Tasks \ {t} : Idle(u) /\ outer[u] = "none"

WithLockFailed(t) == pc[t] = "settled" /\ taskOutcome[t].type = "throw"

(* C4: release on failure and reusability.  When the task of a withLock call
   on an otherwise unused mutex has failed with E, the call fails with E and
   the mutex is free with an empty queue; a withLock call made then is
   granted the lock at once (its task is called in the same block), and one
   whose task returns 'ok' settles with 'ok'. *)
C4_ReleaseOnFailure ==
    /\ [](\A t \in Tasks :
            /\ (WithLockFailed(t) /\ Alone(t) /\ outer[t] = "none")
                  => (result[t] = taskOutcome[t] /\ ~isLocked /\ queue = <<>>)
            /\ (pc[t] = "settled" /\ taskOutcome[t] = Return("ok"))
                  => result[t] = Return("ok"))
    /\ [][\A t, u \in Tasks :
            (/\ WithLockFailed(t) /\ Alone(t) /\ outer[t] = "none"
             /\ pc'[u] \in {"wlWaiting", "wlResumed", "wlTask", "settled"}
             /\ pc'[u] # pc[u])
                => pc'[u] \in {"wlTask", "settled"}]_vars

\* After a failed withLock, the next withLock call has been granted the lock.
C4_Witness ==
    \E t, u \in Tasks :
        /\ t # u
        /\ WithLockFailed(t) /\ result[t] = Throw("E")
        /\ pc[u] = "wlTask"
        /\ unlockCalls = 1 /\ PairedUse /\ isLocked

(* C5: no lost wakeup.  Under fair scheduling and paired use, where every
   holder comes to its unlock() (withLock also when its task fails), every
   queued lock() or withLock call is eventually handed the lock, its resolve
   callback having been invoked exactly once: no waiter stays queued forever,
   and no resolve callback is ever invoked twice. *)
C5_NoLostWakeup ==
    /\ \A t \in Tasks : Waiting(t) ~> (Resumed(t) /\ wakeups[t] = 1)
    /\ [](\A t \in Tasks : wakeups[t] <= 1)

\* A waiter has been resumed by the unlock() of a withLock whose task failed,
\* while another waiter is still queued.
C5_Witness ==
    \E h, t, u \in Tasks :
        /\ pc[h] = "settled" /\ result[h].type = "throw"
        /\ Resumed(t) /\ wakeups[t] = 1
        /\ Waiting(u)

\* A waiter is queued, or (under paired use) has been resumed and has not continued.
Busy == queue # <<>> \/ (PairedUse /\ \E w \in Tasks : Resumed(w))

(* C6: no queue bypass.  While a waiter is queued, or (every unlock() so far
   being a holder's release) has been resumed and has not continued, a
   tryLock() returns false and takes nothing, a lock() or withLock() call,
   nested or not, is appended behind the queued waiters, and the only caller
   that is handed the lock is the waiter that arrived first. *)
C6_NoQueueBypass ==
    [][Busy => \A t \in Tasks :
          /\ (Idle(t) /\ pc'[t] # pc[t])
                => \/ pc'[t] = "refused" /\ isLocked' = isLocked /\ queue' = queue
                   \/ pc'[t] = "idle" /\ unlockCalls' = unlockCalls + 1
                   \/ Waiting(t)' /\ queue' = Append(queue, t) /\ isLocked'
          /\ (outer[t] = "none" /\ outer'[t] # "none")
                => (Waiting(t)' /\ queue' = Append(queue, t))
          /\ (~Resumed(t) /\ Resumed(t)')
                => (Waiting(t) /\ t = Head(arrivals))]_vars

\* A tryLock() was refused and a lock() is queued while a resumed waiter has
\* not continued yet and nobody is in a critical section.
C6_Witness ==
    /\ PairedUse
    /\ queue # <<>>
    /\ \E w, r \in Tasks : Resumed(w) /\ pc[r] = "refused"
    /\ \A t \in Tasks : ~InRegion(t)

(* C7: withLock delivers the outcome of its task unchanged: the settled
   promise of withLock carries exactly the value the task returned, or
   exactly the error it failed with. *)
C7_OutcomeUnchanged ==
    \A t \in Tasks :
        pc[t] = "settled"
            => (result[t] = taskOutcome[t] /\ result[t] \in AsyncOutcomes)

\* A withLock call that had to queue has settled with the value its task returned.
C7_Witness ==
    \E t \in Tasks :
        /\ pc[t] = "settled" /\ wakeups[t] = 1
        /\ result[t] = Return("other")

(* C8: non-reentrancy.  A lock() call made by a caller that holds the lock
   (from inside its critical section) is not granted: it is appended to the
   queue; and a queued request leaves the queue only in a step in which
   unlock() is called, which resumes it. *)
C8_NonReentrant ==
    [][\A t \in Tasks :
          /\ (/\ PairedUse
              /\ pc[t] \in {"cs", "wlTask"} /\ outer[t] = "none"
              /\ outer'[t] # "none" /\ pc'[t] \in {"granted", "waiting"})
                => (pc'[t] = "waiting" /\ queue' = Append(queue, t) /\ wakeups'[t] = 0)
          /\ (Waiting(t) /\ ~Waiting(t)')
                => (unlockCalls' = unlockCalls + 1 /\ Resumed(t)')]_vars

\* The holder's second lock() is queued behind nobody, and nothing was unlocked.
C8_Witness ==
    \E t \in Tasks :
        /\ outer[t] = "cs" /\ pc[t] = "waiting"
        /\ queue = <<t>> /\ unlockCalls = 0

(* C9: lock() leaves its caller waiting for a resolve exactly when the mutex
   is locked at the call, and only unlock() resumes a waiter: never more
   resumptions than unlock() calls, a resolve callback is invoked only by
   the unlock() that takes it from the head of the queue, and never twice. *)
C9_ResumedOnlyByUnlock ==
    /\ [](/\ resumeCount <= unlockCalls
          /\ \A t \in Tasks :
                /\ wakeups[t] <= 1
                /\ Resumed(t) => (wakeups[t] = 1 /\ ~InSeq(t, queue))
                /\ Waiting(t) => (wakeups[t] = 0 /\ Count(t, queue) = 1))
    /\ [][\A t \in Tasks :
            /\ (pc'[t] \in {"granted", "waiting"} /\ pc[t] \notin {"granted", "waiting"})
                  => (pc'[t] = "waiting" <=> isLocked)
            /\ (wakeups'[t] > wakeups[t])
                  => (/\ unlockCalls' = unlockCalls + 1
                      /\ queue # <<>> /\ Head(queue) = t /\ queue' = Tail(queue))]_vars

\* Two waiters were resumed by two of three unlock() calls.
C9_Witness ==
    /\ resumeCount = 2 /\ unlockCalls = 3
    /\ \E t \in Tasks : Resumed(t)

\* Acquisitions granted and not yet released.
OwnerCount ==
    Cardinality({t \in Tasks : pc[t] \in {"granted", "resumed", "wlResumed", "cs", "wlTask"}})
    + Cardinality({t \in Tasks : outer[t] # "none"})

\* unlock() is called on a free mutex with an empty queue (by a caller that did
\* not take the lock in the same block).
OverReleaseStep ==
    /\ ~isLocked /\ queue = <<>>
    /\ unlockCalls' = unlockCalls + 1
    /\ \A t \in Tasks : ~(Idle(t) /\ pc'[t] = "settled")

(* C10: over-release tolerance.  unlock() on a free mutex with an empty
   queue raises nothing, resumes nobody and leaves the mutex free with an
   empty queue; afterwards the mutex grants no extra credit: a lock() on the
   free mutex is granted at once and at most one acquisition is outstanding
   at any time, a concurrent lock() being queued. *)
C10_OverReleaseTolerated ==
    /\ [][OverReleaseStep
            => (/\ ~isLocked' /\ queue' = <<>>
                /\ resumeCount' = resumeCount
                /\ \A t \in Tasks :
                      /\ pc'[t] # "crashed"
                      /\ pc'[t] = "settled" => result'[t] = taskOutcome'[t])]_vars
    /\ []((overReleased /\ PairedUse)
            => (/\ OwnerCount <= 1
                /\ isLocked <=> OwnerCount = 1
                /\ queue # <<>> => isLocked))
    /\ [][(overReleased /\ PairedUse)
            => \A t \in Tasks :
                  (pc'[t] \in {"granted", "waiting"} /\ pc[t] \notin {"granted", "waiting"})
                      => (pc'[t] = "granted" <=> OwnerCount = 0)]_vars

\* After an unlock() of a free mutex: one lock() was granted at once, a second
\* one is queued.
C10_Witness ==
    /\ overReleased /\ PairedUse
    /\ \E t, u \in Tasks :
          /\ pc[t] \in {"granted", "cs"} /\ wakeups[t] = 0
          /\ pc[u] = "waiting"

\* The calls so far are a prefix of the tryLock scenario, by whichever callers.
InScenario == ops.on /\ FollowsScenario(ops.log)

(* C11: tryLock().  It returns true exactly when the mutex is free at the
   call, and then #isLocked is true and the queue is as it was; on a held
   mutex (with or without waiters) it returns false, leaves #isLocked and the
   queue as they were, enqueues nobody and resumes nobody.  On a new mutex
   tryLock(), tryLock(), unlock(), tryLock() return true, false, true. *)
C11_TryLock ==
    /\ [][\A t \in Tasks :
            (Idle(t) /\ pc'[t] \in {"cs", "refused"} /\ pc'[t] # pc[t])
                => /\ (pc'[t] = "cs") <=> ~isLocked
                   /\ pc'[t] = "cs" => (isLocked' /\ queue' = queue)
                   /\ pc'[t] = "refused"
                         => (/\ isLocked' = isLocked /\ queue' = queue
                             /\ arrivals' = arrivals /\ ~InSeq(t, queue')
                             /\ resumeCount' = resumeCount
                             /\ \A u \in Tasks \ {t} : pc'[u] = pc[u])]_vars
    /\ [](InScenario
            => \A i \in 1..Len(ops.log) :
                  ops.log[i].op = "tryLock" => (ops.log[i].ret <=> i # 2))

\* The four calls of the scenario have been made on a new mutex; the second
\* tryLock() found the mutex held with an empty queue.
C11_Witness ==
    /\ InScenario /\ Len(ops.log) = Len(TryLockScenario)
    /\ isLocked /\ queue = <<>>
    /\ \E t \in Tasks : pc[t] = "cs"

\* Every caller has finished its increment.
AllDone == \A t \in Tasks : rmw[t] = Incremented /\ pc[t] = "idle"

(* C12: no lost update.  When each of the N callers does `read the counter,
   suspend, write counter + 1` once while holding the mutex (in the task of
   withLock, or between lock() and unlock()), then however the runtime
   interleaves them every caller finishes, and the counter is N when all
   have finished (and never more than N). *)
C12_NoLostUpdate ==
    /\ [](AllDone => counter = NumTasks)
    /\ [](counter <= NumTasks)
    /\ <>[]AllDone

\* All callers have finished, two of them after waiting in the queue.
C12_Witness ==
    /\ AllDone /\ counter = NumTasks
    /\ resumeCount >= 2

\* The lock was handed to t by an unlock() and t has not released it.
HandedOver(t) == Resumed(t) \/ (pc[t] \in {"cs", "wlTask"} /\ wakeups[t] >= 1)

(* C13: direct ownership transfer.  An unlock() called while the queue is
   not empty removes exactly the head entry and calls it (once, and no other
   entry), leaves the other entries in their order, and #isLocked stays
   true; and, every unlock() being a holder's release, #isLocked is true
   from the unlock() that resumed a waiter until that waiter's own unlock(). *)
C13_DirectTransfer ==
    /\ [][(unlockCalls' = unlockCalls + 1 /\ queue # <<>>)
            => LET h == Head(queue)
               IN /\ queue' = Tail(queue)
                  /\ isLocked /\ isLocked'
                  /\ pc'[h] \in {"resumed", "wlResumed"}
                  /\ wakeups'[h] = wakeups[h] + 1
                  /\ resumeCount' = resumeCount + 1
                  /\ \A u \in Tasks \ {h} :
                        /\ wakeups'[u] <= wakeups[u]
                        /\ Resumed(u)' => Resumed(u)]_vars
    /\ [](PairedUse => \A t \in Tasks : HandedOver(t) => isLocked)

\* A waiter was resumed by the holder's unlock() and has not continued, one
\* more waiter is queued, and nobody is in a critical section.
C13_Witness ==
    /\ PairedUse /\ isLocked
    /\ Len(queue) = 1
    /\ \E t \in Tasks : Resumed(t) /\ wakeups[t] = 1
    /\ \A t \in Tasks : ~InRegion(t)

\* t has been granted the lock and has not released it.
Owning(t) == pc[t] \in {"granted", "resumed", "wlResumed", "cs", "wlTask"}

(* C14 as stated: hand-off atomicity.  From the resolve call inside unlock()
   until the resumed waiter continues as the holder no other caller's code
   runs: the step that follows the resumption of a waiter is that waiter's
   continuation. *)
C14_HandOffAtomic ==
    [][\A w \in Tasks : (PairedUse' /\ Resumed(w)) => ~Resumed(w)']_vars

(* C14, amended: the hand-off is exclusive, not atomic.  resolve() only
   schedules the continuation of the waiter, so blocks of other callers (the
   rest of the block that called unlock() among them) may run before it; but,
   every unlock() being a holder's release, they cannot take the lock:
   #isLocked is true for as long as the waiter has not continued, no other
   caller is granted the lock or enters a critical section, and the first
   caller to enter one is the resumed waiter (whose continuation, where the
   task of withLock throws at once, may itself hand the lock on). *)
C14_HandOffExclusive ==
    [][\A w \in Tasks :
          (PairedUse' /\ Resumed(w))
              => /\ isLocked
                 /\ Resumed(w)'
                       => (/\ isLocked'
                           /\ \A u \in Tasks \ {w} : ~Owning(u)' /\ outer'[u] = "none")
                 /\ ~Resumed(w)'
                       => (/\ pc'[w] \in {"cs", "wlTask", "settled"}
                           /\ \A u \in Tasks \ {w} :
                                 Owning(u)' => (pc'[w] = "settled" /\ Resumed(u)'))]_vars

\* After the one unlock() so far a waiter is resumed and has not continued,
\* and every other caller's last call was a tryLock() that was refused.
C14_Witness ==
    /\ PairedUse /\ unlockCalls = 1 /\ resumeCount = 1
    /\ \E w \in Tasks :
          /\ Resumed(w) /\ wakeups[w] = 1
          /\ \A u \in Tasks \ {w} : pc[u] = "refused"

(* C15: queue/flag invariant.  Whatever calls are made on the mutex, in
   whatever order (unlock() by callers that hold nothing, on a held or on a
   free mutex, and calls from inside a critical section included), a
   non-empty queue implies that #isLocked is true; equivalently, when
   #isLocked is false the queue is empty. *)
C15_QueueImpliesLocked ==
    /\ queue # <<>> => isLocked
    /\ ~isLocked => Size(queue) = 0

\* A waiter is queued on a mutex that has seen an unlock() by a non-holder
\* while it was held and an unlock() while it was free.
C15_Witness ==
    /\ stolen /\ overReleased
    /\ queue # <<>> /\ isLocked

\* No method of the mutex has been called yet.
NewMutex == ops.on /\ ops.log = <<>>

(* C16: isLocked tracks ownership.  A new mutex is unlocked with an empty
   queue.  As long as every unlock() is a holder's release, #isLocked is
   true exactly when one caller has been granted the lock and has not
   released it (a waiter counting as the owner from the resolve call on),
   and there is never more than one such caller.  Reading isLocked returns
   the flag and changes nothing: the flag changes only in a step in which a
   caller makes a call or continues. *)
C16_IsLockedTracksOwner ==
    /\ [](NewMutex => (~isLocked /\ queue = <<>>))
    /\ [](PairedUse => (OwnerCount <= 1 /\ (isLocked <=> OwnerCount = 1)))
    /\ [](IsLocked(Mutex).m = Mutex /\ IsLocked(Mutex).ret = isLocked)
    /\ [][(isLocked' # isLocked \/ queue' # queue)
            => (pc' # pc \/ outer' # outer \/ unlockCalls' # unlockCalls)]_vars

\* After two releases the lock belongs to a waiter that was resumed and has
\* not continued: nobody is queued or in a critical section, and the flag is set.
C16_Witness ==
    /\ PairedUse /\ isLocked /\ queue = <<>>
    /\ unlockCalls = 2 /\ resumeCount = 2
    /\ \E w \in Tasks : Resumed(w) /\ \A u \in Tasks \ {w} : ~Owning(u) /\ outer[u] = "none"

\* The calls so far are lock(), unlock(), lock(), ... by one caller, and no
\* other method call was made.
Solo == ops.on /\ Len(ops.log) >= 1 /\ SoloPairs(ops.log)

(* C17: no ownership leak.  While one caller makes lock()/unlock() pairs in
   sequence (each lock() awaited before its unlock(), no other caller using
   the mutex), no call fails, no lock() has to wait for a resolve, and after
   each unlock() the mutex is as new: unlocked, with an empty queue; after
   each lock() it is locked with an empty queue. *)
C17_NoOwnershipLeak ==
    Solo => LET t == ops.log[1].by
                n == Len(ops.log)
            IN /\ \A i \in 1..n : ops.log[i].op = "lock" => ~ops.log[i].ret
               /\ \A u \in Tasks : pc[u] # "crashed" /\ ~Waiting(u)
               /\ n % 2 = 0 => (/\ Mutex = [isLocked |-> FALSE, queue |-> <<>>]
                                /\ pc[t] = "idle")
               /\ n % 2 = 1 => (/\ Mutex = [isLocked |-> TRUE, queue |-> <<>>]
                                /\ pc[t] \in {"granted", "cs"})

\* One caller has made three lock()/unlock() pairs and the mutex is free.
C17_Witness ==
    /\ Solo /\ Len(ops.log) = 6
    /\ ~isLocked /\ unlockCalls = 3

(* C18: no ownership token.  What unlock() does is determined by the mutex
   state alone, whoever calls it: with an empty queue it leaves #isLocked
   false and resumes nobody, with a non-empty queue it resumes the head
   waiter and leaves the flag as it is.  So an unlock() by a caller that
   never acquired the lock, made while another caller holds it, releases it
   (or hands it to the head waiter) just as the holder's own unlock() would. *)
C18_NoOwnershipToken ==
    [][unlockCalls' = unlockCalls + 1
          => /\ queue = <<>>
                   => (~isLocked' /\ queue' = <<>> /\ resumeCount' = resumeCount)
             /\ queue # <<>>
                   => LET h == Head(queue)
                      IN /\ queue' = Tail(queue) /\ isLocked' = isLocked
                         /\ pc'[h] \in {"resumed", "wlResumed"}
                         /\ resumeCount' = resumeCount + 1]_vars

\* While a caller is in its critical section, unlock() calls by callers that
\* hold nothing have handed the lock to a waiter and have cleared the flag.
C18_Witness ==
    /\ stolen /\ ~isLocked
    /\ \E h, w \in Tasks :
          /\ h # w
          /\ pc[h] \in {"cs", "wlTask"} /\ outer[h] = "none"
          /\ Resumed(w)

\* Inside its own critical section t waits for a lock() or withLock() call
\* that it made there.
SelfWaiting(t) == outer[t] # "none" /\ Waiting(t)

(* C19: nested withLock self-deadlock.  A lock() or withLock() call made by
   the holder from inside its critical section (the task of withLock
   included) is queued behind the holder itself.  While the holder waits for
   it, every step in which nobody calls unlock() leaves it waiting inside
   its critical section: neither call completes, #isLocked stays true, no
   waiter is resumed, and every caller that asks for the lock by lock() or
   withLock() is queued as well.  Where the holder is the task of withLock,
   which does not return before the inner call does, no step other than an
   unlock() by a caller that holds nothing calls unlock() at all. *)
C19_NestedSelfDeadlock ==
    [][\A t \in Tasks :
          /\ (/\ PairedUse /\ pc[t] \in {"cs", "wlTask"}
              /\ outer[t] = "none" /\ outer'[t] # "none")
                => (SelfWaiting(t)' /\ InSeq(t, queue') /\ unlocks'[t] = 0)
          /\ (PairedUse' /\ SelfWaiting(t) /\ outer[t] = "wlTask")
                => unlockCalls' = unlockCalls
          /\ (SelfWaiting(t) /\ unlockCalls' = unlockCalls)
                => /\ SelfWaiting(t)' /\ pc'[t] = pc[t] /\ outer'[t] = outer[t]
                   /\ isLocked /\ isLocked'
                   /\ resumeCount' = resumeCount
                   /\ \A u \in Tasks :
                         /\ Waiting(u) => Waiting(u)'
                         /\ (Idle(u) /\ ~Idle(u)') => Waiting(u)']_vars

\* The task of a withLock call has called withLock on the same mutex and
\* waits; a later caller is queued behind it; nobody has called unlock().
C19_Witness ==
    \E t, u \in Tasks :
        /\ outer[t] = "wlTask" /\ pc[t] = "wlWaiting"
        /\ pc[u] \in {"waiting", "wlWaiting"} /\ outer[u] = "none"
        /\ queue = <<t, u>> /\ isLocked
        /\ unlockCalls = 0

\* The task of t's withLock call is called in this step.
TaskStarts(t) ==
    pc[t] \notin {"wlTask", "settled"} /\ pc'[t] \in {"wlTask", "settled"}

(* C20: withLock runs its tasks in call order, one at a time.  As long as
   every unlock() is a holder's release, whenever the task of a withLock
   call is called, every withLock call made before it has had its task
   called already (whether the calls took the tryLock() path or were queued,
   and with lock() callers in the queue among them), no task called earlier
   is still running, and every call whose task has finished has made its
   unlock(). *)
C20_WithLockCallOrder ==
    [][\A t \in Tasks :
          (PairedUse' /\ TaskStarts(t))
              => /\ IF InSeq(t, calls) THEN Head(calls) = t ELSE calls = <<>>
                 /\ \A u \in Tasks :
                       /\ pc[u] # "wlTask" /\ outer[u] # "wlTask"
                       /\ pc[u] = "settled" => unlocks[u] = 1]_vars

\* The task of a withLock call that had to queue is running; another
\* withLock call and a lock() call are queued.
C20_Witness ==
    /\ PairedUse
    /\ \E t, u, v \in Tasks :
          /\ pc[t] = "wlTask" /\ wakeups[t] = 1
          /\ calls = <<u>> /\ pc[u] = "wlWaiting"
          /\ pc[v] = "waiting"

====
